---- MODULE Spec2Model ----
(***************************************************************************)
(* PolyVeda: authorization, lockout and rate-limit layer.                  *)
(*                                                                         *)
(* Sources: backend/accounts/permissions.py, backend/accounts/models.py,   *)
(* backend/accounts/serializers.py, backend/accounts/views.py,             *)
(* backend/accounts/tasks.py, backend/core/services.py.                    *)
(*                                                                         *)
(* Time is in seconds.  An optional timestamp (a nullable DateTimeField)   *)
(* is a set: {} is None, {t} is the value t.                               *)
(***************************************************************************)
EXTENDS Integers, Sequences, FiniteSets, TLC

VARIABLES
    now,           \* timezone.now()
    user,          \* the stored row of the identity (table users)
    institutions,  \* Institution.is_active of each tenant
    limiter,       \* the rate limiter the requests go through
    cache,         \* the counter key of that limiter (django cache, redis)
    sessions,      \* UserSession rows created by AuthViewSet.login
    result,        \* what the last handler returned to its caller
    history,       \* observer: the calls and transitions seen so far
    reqs,          \* request handlers in flight (concurrent specifications)
    audit_logs     \* the rows of table audit_logs

vars == <<now, user, institutions, limiter, cache, sessions, result, history,
          reqs, audit_logs>>

----------------------------------------------------------------------------
(* Data *)

None == "None"

\* User.Role (models.py 214-222)
Roles == {"student", "faculty", "hod", "admin", "management",
          "super_admin", "auditor", "support"}

\* User.Status (models.py 224-232)
Statuses == {"active", "inactive", "suspended", "pending", "locked",
             "expired", "under_review", "compliance_hold"}

\* a role value outside the role table: bulk_action change_role writes
\* action_data['role'] unvalidated (users.update(role=new_role))
UnknownRole == "registrar"

Tenants == {"T1", "T2"}

\* the capabilities a view may require (HasPermission.required_permission)
Perms == {"manage_users", "grade_assignments"}

\* values of the 'custom' entry of User.permissions
CustomChoices ==
    { [p \in {} |-> TRUE],
      [p \in {"manage_users"} |-> TRUE],
      [p \in {"grade_assignments"} |-> FALSE],
      [p \in {"all_permissions"} |-> TRUE] }

\* resources: kind "inst" has an attribute institution, kind "user" has an
\* attribute user (whose institution is tenant), kind "plain" has neither
Objects ==
    [kind : {"inst", "user"}, tenant : Tenants \cup {None}]
        \cup {[kind |-> "plain", tenant |-> None]}

Allow == [allowed |-> TRUE, reason |-> "OK"]

Deny(why) == [allowed |-> FALSE, reason |-> why]

----------------------------------------------------------------------------
(* accounts/models.py: User *)

\* variant: the stored status "locked" counts as a lock
is_account_locked_StatusFlag(u, t) ==
    u.status = "locked" \/ \E l \in u.locked_until : l > t

\* User.is_account_locked
is_account_locked(u, t) == \E l \in u.locked_until : l > t

\* User.is_password_expired
is_password_expired(u, t) == \E e \in u.password_expires_at : e < t

\* User.can_login; is_active, the flag of AbstractUser, is True on every row
\* (nothing in the code clears it)
can_login(u, t) ==
    /\ u.status = "active"
    /\ ~is_account_locked(u, t)
    /\ ~is_password_expired(u, t)

\* User.get_role_permissions: the role table, each entry maps to True
get_role_permissions(role) ==
    CASE role = "student" ->
            {"view_own_profile", "view_own_courses", "view_own_attendance",
             "view_own_results", "submit_assignments",
             "create_support_tickets", "access_ai_insights",
             "view_digital_credentials"}
      [] role = "faculty" ->
            {"view_own_profile", "manage_own_courses", "take_attendance",
             "grade_assignments", "view_student_profiles",
             "create_announcements", "access_ai_insights",
             "generate_reports"}
      [] role = "hod" ->
            {"view_own_profile", "manage_department",
             "view_department_reports", "approve_requests",
             "manage_faculty", "access_advanced_analytics",
             "manage_compliance"}
      [] role = "admin" ->
            {"view_own_profile", "manage_users", "manage_system",
             "view_all_reports", "manage_institution",
             "access_enterprise_features", "manage_security"}
      [] role = "management" ->
            {"view_own_profile", "view_analytics", "view_financial_reports",
             "manage_policies", "access_executive_dashboard",
             "manage_compliance"}
      [] role = "auditor" ->
            {"view_own_profile", "conduct_audits", "view_compliance_reports",
             "access_audit_logs", "generate_compliance_reports"}
      [] role = "support" ->
            {"view_own_profile", "manage_support_tickets",
             "view_user_profiles", "access_support_tools"}
      [] role = "super_admin" -> {"all_permissions"}
      [] OTHER -> {}

\* every capability name of the role table
Capabilities == UNION {get_role_permissions(role) : role \in Roles}

\* User.get_permissions on a cache miss: {**role_permissions, **custom};
\* the value of key k in the merged dict (False when k is absent, as
\* dict.get(k, False) reads it)
get_permissions(u, k) ==
    IF k \in DOMAIN u.custom THEN u.custom[k]
    ELSE k \in get_role_permissions(u.role)

\* the keys of the dict get_permissions returns whose value is True
effective_capabilities(u) == {k \in Capabilities : get_permissions(u, k)}

\* the timeout of the key user_permissions_<id>: cache.set(..., 300)
PermissionsTTL == 300

\* User.get_permissions on the instance u with the cache key c at time t: the
\* dict the call returns (as the set of its keys whose value is True) and
\* the key it leaves.  A live entry is returned as it is; on a miss the dict
\* is built from the role and the custom entries of the instance and stored
\* for 300 s.
get_permissions_cached(u, c, t) ==
    LET live == {e \in c : e.expires > t}
    IN  IF live # {}
        THEN [permissions |-> (CHOOSE e \in live : TRUE).permissions,
              cache |-> c]
        ELSE [permissions |-> effective_capabilities(u),
              cache |-> {[permissions |-> effective_capabilities(u),
                          expires |-> t + PermissionsTTL]}]

\* variant: only the role table is read, the custom entries are ignored
has_permission_RoleOnly(u, permission) ==
    \/ "all_permissions" \in get_role_permissions(u.role)
    \/ permission \in get_role_permissions(u.role)

\* User.has_permission
has_permission(u, permission) ==
    get_permissions(u, "all_permissions") \/ get_permissions(u, permission)

\* the failure count at which increment_failed_login_attempts locks
LockThreshold == 5

LockoutSeconds == 30 * 60

\* variant: a failure made while the lock is live leaves locked_until alone
increment_failed_login_attempts_NoRearm(u, t) ==
    [u EXCEPT !.failed_login_attempts = @ + 1,
              !.locked_until =
                  IF /\ u.failed_login_attempts + 1 >= LockThreshold
                     /\ ~is_account_locked(u, t)
                  THEN {t + LockoutSeconds} ELSE @]

\* variant: the lock is set only when the count exceeds the threshold
increment_failed_login_attempts_OffByOne(u, t) ==
    [u EXCEPT !.failed_login_attempts = @ + 1,
              !.locked_until =
                  IF u.failed_login_attempts + 1 > LockThreshold
                  THEN {t + LockoutSeconds} ELSE @]

\* User.increment_failed_login_attempts, on the instance u at time t
increment_failed_login_attempts(u, t) ==
    [u EXCEPT !.failed_login_attempts = @ + 1,
              !.locked_until =
                  IF u.failed_login_attempts + 1 >= LockThreshold
                  THEN {t + LockoutSeconds} ELSE @]

\* variant: the counter is cleared, the lock is kept
reset_failed_login_attempts_KeepLock(u) ==
    [u EXCEPT !.failed_login_attempts = 0]

\* User.reset_failed_login_attempts, on the instance u
reset_failed_login_attempts(u) ==
    [u EXCEPT !.failed_login_attempts = 0, !.locked_until = {}]

\* save(update_fields=['failed_login_attempts', 'locked_until']): the two
\* columns of instance u are written into the stored row
save_login_fields(row, u) ==
    [row EXCEPT !.failed_login_attempts = u.failed_login_attempts,
                !.locked_until = u.locked_until]

----------------------------------------------------------------------------
(* accounts/permissions.py *)

\* the tenant an object is compared by: obj.institution, else
\* obj.user.institution
TenantEq(u, obj) == obj.tenant = u.institution

\* variant: the tenant checks run before the super-admin bypass
IsInstitutionMember_has_permission_TenantFirst(u) ==
    IF ~u.is_authenticated THEN Deny("NOT_AUTHENTICATED")
    ELSE IF u.institution = None THEN Deny("NO_TENANT")
    ELSE IF ~institutions[u.institution] THEN Deny("TENANT_INACTIVE")
    ELSE Allow

IsInstitutionMember_has_permission(u) ==
    IF ~u.is_authenticated THEN Deny("NOT_AUTHENTICATED")
    ELSE IF u.role = "super_admin" THEN Allow
    ELSE IF u.institution = None THEN Deny("NO_TENANT")
    ELSE IF ~institutions[u.institution] THEN Deny("TENANT_INACTIVE")
    ELSE Allow

IsInstitutionMember_has_object_permission(u, obj) ==
    IF ~u.is_authenticated THEN Deny("NOT_AUTHENTICATED")
    ELSE IF u.role = "super_admin" THEN Allow
    ELSE IF obj.kind = "inst" THEN
        IF TenantEq(u, obj) THEN Allow ELSE Deny("TENANT_MISMATCH")
    ELSE IF obj.kind = "user" THEN
        IF TenantEq(u, obj) THEN Allow ELSE Deny("TENANT_MISMATCH")
    ELSE Deny("NOT_TENANT_SCOPED")

IsInstitutionAdmin_has_permission(u) ==
    IF ~u.is_authenticated THEN Deny("NOT_AUTHENTICATED")
    ELSE IF u.role = "super_admin" THEN Allow
    ELSE IF u.role \notin {"admin", "management"} THEN Deny("ROLE_NOT_ALLOWED")
    ELSE IF u.institution = None THEN Deny("NO_TENANT")
    ELSE IF ~institutions[u.institution] THEN Deny("TENANT_INACTIVE")
    ELSE Allow

IsInstitutionAdmin_has_object_permission(u, obj) ==
    IF ~u.is_authenticated THEN Deny("NOT_AUTHENTICATED")
    ELSE IF u.role = "super_admin" THEN Allow
    ELSE IF u.role \notin {"admin", "management"} THEN Deny("ROLE_NOT_ALLOWED")
    ELSE IF obj.kind = "inst" THEN
        IF TenantEq(u, obj) THEN Allow ELSE Deny("TENANT_MISMATCH")
    ELSE IF obj.kind = "user" THEN
        IF TenantEq(u, obj) THEN Allow ELSE Deny("TENANT_MISMATCH")
    ELSE Deny("NOT_TENANT_SCOPED")

HasPermission_has_permission(u, required_permission) ==
    IF ~u.is_authenticated THEN Deny("NOT_AUTHENTICATED")
    ELSE IF u.role = "super_admin" THEN Allow
    ELSE IF has_permission(u, required_permission) THEN Allow
    ELSE Deny("MISSING_CAPABILITY")

\* variant: the capability alone decides, the tenant is not compared
HasPermission_has_object_permission_NoTenant(u, required_permission, obj) ==
    IF ~u.is_authenticated THEN Deny("NOT_AUTHENTICATED")
    ELSE IF u.role = "super_admin" THEN Allow
    ELSE IF ~has_permission(u, required_permission)
        THEN Deny("MISSING_CAPABILITY")
    ELSE Allow

HasPermission_has_object_permission(u, required_permission, obj) ==
    IF ~u.is_authenticated THEN Deny("NOT_AUTHENTICATED")
    ELSE IF u.role = "super_admin" THEN Allow
    ELSE IF ~has_permission(u, required_permission)
        THEN Deny("MISSING_CAPABILITY")
    ELSE IF obj.kind = "inst" THEN
        IF TenantEq(u, obj) THEN Allow ELSE Deny("TENANT_MISMATCH")
    ELSE IF obj.kind = "user" THEN
        IF TenantEq(u, obj) THEN Allow ELSE Deny("TENANT_MISMATCH")
    ELSE Allow

\* variant: super admins skip the status check
IsActiveUser_has_permission_Bypass(u) ==
    IF ~u.is_authenticated THEN Deny("NOT_AUTHENTICATED")
    ELSE IF u.role = "super_admin" THEN Allow
    ELSE IF u.status = "active" THEN Allow
    ELSE Deny("ACCOUNT_NOT_ACTIVE")

\* IsActiveUser.has_permission and has_object_permission (same body)
IsActiveUser_has_permission(u) ==
    IF ~u.is_authenticated THEN Deny("NOT_AUTHENTICATED")
    ELSE IF u.status = "active" THEN Allow
    ELSE Deny("ACCOUNT_NOT_ACTIVE")

\* IsNotLocked.has_permission and has_object_permission (same body)
IsNotLocked_has_permission(u, t) ==
    IF ~u.is_authenticated THEN Deny("NOT_AUTHENTICATED")
    ELSE IF ~is_account_locked(u, t) THEN Allow
    ELSE Deny("ACCOUNT_LOCKED")

----------------------------------------------------------------------------
(* Rate limiting: RateLimitPermission (accounts/permissions.py) and        *)
(* SecurityService.check_rate_limit (core/services.py)                     *)

\* the counter key is a set: {} when the key does not exist, else one entry
\* [count, expires]; a key set with a timeout of w at time t is gone at t + w

\* cache.get(cache_key, 0); redis_client.get(key) with None read as 0
cache_get(c, t) ==
    LET live == {e \in c : e.expires > t}
    IN  IF live = {} THEN 0 ELSE (CHOOSE e \in live : TRUE).count

\* cache.set(cache_key, value, timeout); INCR then EXPIRE in one pipeline
cache_set(value, timeout, t) == {[count |-> value, expires |-> t + timeout]}

\* variant: the expiry is set by the first request of a window and kept by
\* the requests counted after it
RateLimitPermission_has_permission_KeepExpiry(u, c, t, max_requests, window_seconds) ==
    IF ~u.is_authenticated THEN [decision |-> Allow, cache |-> c]
    ELSE IF cache_get(c, t) >= max_requests
        THEN [decision |-> Deny("RATE_LIMITED"), cache |-> c]
    ELSE [decision |-> Allow,
          cache |-> IF cache_get(c, t) = 0
                    THEN cache_set(1, window_seconds, t)
                    ELSE {[e EXCEPT !.count = @ + 1] : e \in c}]

\* RateLimitPermission.has_permission with the cache reachable: the decision
\* and the counter key it leaves
RateLimitPermission_has_permission(u, c, t, max_requests, window_seconds) ==
    IF ~u.is_authenticated THEN [decision |-> Allow, cache |-> c]
    ELSE IF cache_get(c, t) >= max_requests
        THEN [decision |-> Deny("RATE_LIMITED"), cache |-> c]
    ELSE [decision |-> Allow,
          cache |-> cache_set(cache_get(c, t) + 1, window_seconds, t)]

\* SecurityService.check_rate_limit: the returned dict (allowed, error,
\* limit_exceeded) and the counter key it leaves; store_up = FALSE is a
\* redis call that raises, which the except branch turns into allowed
check_rate_limit(c, t, limit, window, store_up) ==
    IF ~store_up
        THEN [allowed |-> TRUE, error |-> TRUE, limit_exceeded |-> FALSE,
              cache |-> c]
    ELSE IF cache_get(c, t) >= limit
        THEN [allowed |-> FALSE, error |-> FALSE, limit_exceeded |-> TRUE,
              cache |-> c]
    ELSE [allowed |-> TRUE, error |-> FALSE, limit_exceeded |-> FALSE,
          cache |-> cache_set(cache_get(c, t) + 1, window, t)]

----------------------------------------------------------------------------
(* accounts/serializers.py: LoginSerializer *)

\* variant: the lock is not looked at once the password matches
LoginSerializer_validate_NoLockCheck(u, email_known, password_ok, code, t) ==
    IF ~email_known THEN [outcome |-> "unknown_email", user |-> u]
    ELSE IF ~password_ok THEN
        [outcome |-> "wrong_password",
         user |-> increment_failed_login_attempts(u, t)]
    ELSE IF is_password_expired(u, t) THEN
        [outcome |-> "password_expired", user |-> u]
    ELSE IF u.two_factor_enabled /\ code = "" THEN
        [outcome |-> "two_factor_required", user |-> u]
    ELSE [outcome |-> "ok", user |-> reset_failed_login_attempts(u)]

\* LoginSerializer.validate on the instance u that User.objects.get loaded;
\* outcome names the ValidationError raised ("ok": attrs are returned), user
\* is the instance as the method leaves (and saves) it.  validate_2fa_code
\* accepts every code.
LoginSerializer_validate(u, email_known, password_ok, code, t) ==
    IF ~email_known THEN [outcome |-> "unknown_email", user |-> u]
    ELSE IF ~password_ok THEN
        [outcome |-> "wrong_password",
         user |-> increment_failed_login_attempts(u, t)]
    ELSE IF is_account_locked(u, t) THEN
        [outcome |-> "locked", user |-> u]
    ELSE IF is_password_expired(u, t) THEN
        [outcome |-> "password_expired", user |-> u]
    ELSE IF u.two_factor_enabled /\ code = "" THEN
        [outcome |-> "two_factor_required", user |-> u]
    ELSE [outcome |-> "ok", user |-> reset_failed_login_attempts(u)]

----------------------------------------------------------------------------
(* accounts/models.py: AuditLog *)

\* the default of the TextField changes ('{}'): no field changed
NoChanges == [field \in {} |-> None]

\* AuditLog.log_action: the row objects.create builds.  An optional actor is
\* a set ({} is None, {a} is the user a); institution is actor.institution
\* if actor else None; details and changes are the dicts the callers pass,
\* kept by the TextField columns as their str(); timestamp is auto_now_add.
log_action(pk, actor, action, entity, entity_id, severity, details, changes, t) ==
    [id |-> pk,
     actor |-> {a.id : a \in actor},
     institution |-> IF actor = {} THEN None
                     ELSE (CHOOSE a \in actor : TRUE).institution,
     action |-> action,
     entity |-> entity,
     entity_id |-> entity_id,
     severity |-> severity,
     details |-> details,
     changes |-> changes,
     timestamp |-> t]

\* variant: the column institution accepts NULL
audit_insert_ok_Nullable(row, store_up) == store_up

\* the INSERT of the row: it raises when the database cannot be reached and
\* when institution, a foreign key without null=True, is None
audit_insert_ok(row, store_up) == store_up /\ row.institution # None

----------------------------------------------------------------------------
(* The identities and requests the specifications range over *)

\* request.user of an unauthenticated request (AnonymousUser)
Anonymous == [is_authenticated |-> FALSE]

\* rows of table users as they are before any failed login
Identities ==
    [is_authenticated : {TRUE},
     id : {1},
     role : Roles \cup {UnknownRole},
     status : Statuses,
     institution : Tenants \cup {None},
     custom : CustomChoices,
     failed_login_attempts : {0},
     locked_until : {{}},
     password_expires_at : {{}},
     two_factor_enabled : {FALSE}]

NoResult == [op |-> "none"]

\* no rate limiter is configured on the views of this specification
NoLimiter == [kind |-> "none"]

----------------------------------------------------------------------------
(* Specification SpecDecide: one request checked by a permission class.   *)
(* DRF calls has_permission when the view is entered and                   *)
(* has_object_permission when the view fetches its object.                 *)

DecideInit ==
    /\ now = 0
    /\ user \in Identities
    /\ institutions \in [Tenants -> BOOLEAN]
    /\ limiter = NoLimiter
    /\ cache = {}
    /\ sessions = {}
    /\ result = NoResult
    /\ history = <<>>
    /\ reqs = <<>>
    /\ audit_logs = <<>>

Checked(op, u, perm, obj, view, object) ==
    [op |-> op, user |-> u, perm |-> perm, obj |-> obj,
     view |-> view, object |-> object]

CheckInstitutionMember(u, obj) ==
    /\ result' = Checked("IsInstitutionMember", u, None, obj,
                         IsInstitutionMember_has_permission(u),
                         IsInstitutionMember_has_object_permission(u, obj))
    /\ UNCHANGED <<now, user, institutions, limiter, cache, sessions, history,
                   reqs, audit_logs>>

CheckInstitutionAdmin(u, obj) ==
    /\ result' = Checked("IsInstitutionAdmin", u, None, obj,
                         IsInstitutionAdmin_has_permission(u),
                         IsInstitutionAdmin_has_object_permission(u, obj))
    /\ UNCHANGED <<now, user, institutions, limiter, cache, sessions, history,
                   reqs, audit_logs>>

CheckHasPermission(u, perm, obj) ==
    /\ result' = Checked("HasPermission", u, perm, obj,
                         HasPermission_has_permission(u, perm),
                         HasPermission_has_object_permission(u, perm, obj))
    /\ UNCHANGED <<now, user, institutions, limiter, cache, sessions, history,
                   reqs, audit_logs>>

CheckIsActiveUser(u, obj) ==
    /\ result' = Checked("IsActiveUser", u, None, obj,
                         IsActiveUser_has_permission(u),
                         IsActiveUser_has_permission(u))
    /\ UNCHANGED <<now, user, institutions, limiter, cache, sessions, history,
                   reqs, audit_logs>>

\* each behaviour decides one request: the checks keep no state
DecideNext ==
    /\ result = NoResult
    /\ \E u \in {user, Anonymous}, obj \in Objects :
        \/ CheckInstitutionMember(u, obj)
        \/ CheckInstitutionAdmin(u, obj)
        \/ \E perm \in Perms : CheckHasPermission(u, perm, obj)
        \/ CheckIsActiveUser(u, obj)

SpecDecide == DecideInit /\ [][DecideNext]_vars

----------------------------------------------------------------------------
(* Properties of SpecDecide *)

TenantClasses == {"IsInstitutionMember", "IsInstitutionAdmin", "HasPermission"}

\* the request is made by a non-super-admin identity on a resource whose
\* owning tenant is set and is not the identity's tenant
CrossTenant ==
    /\ result.op \in TenantClasses
    /\ result.user.is_authenticated
    /\ result.user.role # "super_admin"
    /\ result.obj.tenant # None
    /\ result.obj.tenant # result.user.institution

RequestDecision ==
    IF ~result.view.allowed THEN result.view ELSE result.object

\* the request of a non-super-admin identity went through one of the
\* tenant-aware permission classes
NonSuperAdminRequest ==
    /\ result.op \in TenantClasses
    /\ result.user.is_authenticated
    /\ result.user.role # "super_admin"

TenantActive(u) ==
    IF u.institution = None THEN FALSE ELSE institutions[u.institution]

\* C11: a non-super_admin identity is allowed only if it is bound to a
\* tenant and that tenant is active; an identity without tenant is denied
\* with NO_TENANT and one whose tenant is inactive with TENANT_INACTIVE, for
\* every required capability and every resource (resources without owning
\* tenant included).
C11_ActiveTenant ==
    NonSuperAdminRequest =>
        /\ RequestDecision.allowed => TenantActive(result.user)
        /\ result.user.institution = None =>
               RequestDecision = Deny("NO_TENANT")
        /\ (result.user.institution # None /\ ~TenantActive(result.user)) =>
               RequestDecision = Deny("TENANT_INACTIVE")

\* the identity is active and bound to an active tenant, and the resource
\* passes the tenant comparison of HasPermission (same tenant, or an
\* object without institution and user attribute)
PassesEarlierChecks ==
    /\ result.user.status = "active"
    /\ ~is_account_locked(result.user, now)
    /\ TenantActive(result.user)
    /\ result.obj.kind = "plain" \/ TenantEq(result.user, result.obj)

C13_CustomOnlyAdds ==
    ( /\ result.op = "HasPermission"
      /\ result.user.is_authenticated
      /\ result.perm \in get_role_permissions(result.user.role) )
    => /\ get_role_permissions(result.user.role)
               \subseteq effective_capabilities(result.user)
       /\ has_permission(result.user, result.perm)
       /\ result.view = Allow

\* C14: for an identity whose role is not in the role table the capability
\* lookup fails with UnknownRoleError and the request ends in that error;
\* it is neither allowed nor denied for a missing capability.
C14_UnknownRoleIsError ==
    ( /\ result.op = "HasPermission"
      /\ result.user.is_authenticated
      /\ result.user.role \notin Roles )
    => /\ result.view.reason = "UnknownRoleError"
       /\ ~result.view.allowed

\* the reason of the first failing check when tenant isolation, tenant
\* active and capability are evaluated in that order ("OK" when all pass)
FirstFailingReason ==
    IF CrossTenant THEN "TENANT_MISMATCH"
    ELSE IF result.user.institution = None THEN "NO_TENANT"
    ELSE IF ~TenantActive(result.user) THEN "TENANT_INACTIVE"
    ELSE IF ~has_permission(result.user, result.perm)
        THEN "MISSING_CAPABILITY"
    ELSE "OK"

\* C22: for a non-super_admin identity the checks run in the order tenant
\* isolation, tenant active, capability, and the request is denied with the
\* reason of the first check that fails: a request on another tenant's
\* resource by an identity that lacks the capability is denied with
\* TENANT_MISMATCH, not MISSING_CAPABILITY.
C22_CheckOrder ==
    ( /\ result.op = "HasPermission"
      /\ result.user.is_authenticated
      /\ result.user.role # "super_admin"
      /\ FirstFailingReason # "OK" )
    => RequestDecision = Deny(FirstFailingReason)

----------------------------------------------------------------------------
(* Specification Spec: logins, the lockout, the cleanup task and the clock *)
(* for one identity; every handler runs to completion before the next.    *)

MaxTime == 3600

MaxAttempts == 7

MaxSessions == 1

\* the clock advances in steps of a third of the lockout
TickSeconds == LockoutSeconds \div 3

PasswordDays == 90

\* audit rows created per behaviour
MaxAuditLogs == 1

SessionHours(remember_me) == IF remember_me THEN 24 ELSE 8

\* rows the login specification starts from: no failures yet; the password
\* expires 90 days after time 0 or expired at time 0
LoginIdentities ==
    [is_authenticated : {TRUE},
     id : {1},
     role : {"faculty"},
     status : {"active", "suspended", "locked"},
     institution : {"T1"},
     custom : {[p \in {} |-> TRUE]},
     failed_login_attempts : {0},
     locked_until : {{}},
     password_expires_at : {{0}, {PasswordDays * 86400}},
     two_factor_enabled : BOOLEAN]

Init ==
    /\ now = 0
    /\ user \in LoginIdentities
    /\ institutions = [t \in Tenants |-> TRUE]
    /\ limiter = NoLimiter
    /\ cache = {}
    /\ sessions = <<>>
    /\ result = NoResult
    /\ history = <<>>
    /\ reqs = <<>>
    /\ audit_logs = <<>>

Tick ==
    /\ now + TickSeconds <= MaxTime
    /\ now' = now + TickSeconds
    /\ UNCHANGED <<user, institutions, limiter, cache, sessions, result,
                   history, reqs, audit_logs>>

\* AuthViewSet.login: LoginSerializer.validate, then on success the user is
\* saved (User.save sets a missing password_expires_at), a UserSession is
\* created, the login is written to the audit log and the tokens and the
\* session id are returned; when the audit INSERT raises, the request ends
\* in that exception after the user and the session have been written
Login(email_known, password_ok, code, remember_me) ==
    LET v == LoginSerializer_validate(user, email_known, password_ok, code, now)
        ok == v.outcome = "ok"
        saved == IF ok /\ v.user.password_expires_at = {}
                 THEN [v.user EXCEPT !.password_expires_at =
                                         {now + PasswordDays * 86400}]
                 ELSE v.user
        row == log_action(Len(history) + 1, {saved}, "login", "User",
                          saved.id, "low", "remember_me", NoChanges, now)
        audited == ok /\ audit_insert_ok(row, TRUE)
    IN  /\ v.user.failed_login_attempts <= MaxAttempts
        /\ ok => Len(sessions) < MaxSessions
        /\ ok => Len(history) < MaxAuditLogs
        /\ user' = saved
        /\ sessions' =
               IF ok
               THEN Append(sessions,
                           [expires_at |->
                                now + SessionHours(remember_me) * 3600,
                            is_active |-> TRUE,
                            is_remembered |-> remember_me])
               ELSE sessions
        /\ audit_logs' = IF audited THEN Append(audit_logs, row)
                         ELSE audit_logs
        /\ history' = IF audited THEN Append(history, row) ELSE history
        /\ result' = [op |-> "login", at |-> now, before |-> user,
                      password_ok |-> email_known /\ password_ok,
                      outcome |-> IF ok /\ ~audited THEN "audit_error"
                                  ELSE v.outcome,
                      session_id |-> IF audited THEN Len(sessions) + 1 ELSE 0,
                      log_called |-> ok, store_up |-> TRUE,
                      audited |-> audited]
        /\ UNCHANGED <<now, institutions, limiter, cache, reqs>>

\* tasks.cleanup_failed_login_attempts: rows with failed_login_attempts > 0
\* and locked_until < now (a NULL locked_until does not match) are reset
cleanup_matches(u, t) ==
    /\ u.failed_login_attempts > 0
    /\ \E l \in u.locked_until : l < t

CleanupFailedLoginAttempts ==
    /\ user' = IF cleanup_matches(user, now)
               THEN reset_failed_login_attempts(user) ELSE user
    /\ result' = [op |-> "cleanup", at |-> now, before |-> user,
                  count |-> IF cleanup_matches(user, now) THEN 1 ELSE 0]
    /\ UNCHANGED <<now, institutions, limiter, cache, sessions, history, reqs,
                   audit_logs>>

\* a request of the identity (or an anonymous one) reaches a view guarded
\* by IsNotLocked
LockedCheck(u) ==
    /\ result' = [op |-> "IsNotLocked", at |-> now, user |-> u,
                  view |-> IsNotLocked_has_permission(u, now),
                  object |-> IsNotLocked_has_permission(u, now)]
    /\ UNCHANGED <<now, user, institutions, limiter, cache, sessions, history,
                   reqs, audit_logs>>

Next ==
    \/ Tick
    \/ \E email_known \in BOOLEAN, password_ok \in BOOLEAN,
          code \in {"", "123456"}, remember_me \in BOOLEAN :
           Login(email_known, password_ok, code, remember_me)
    \/ CleanupFailedLoginAttempts
    \/ \E u \in {user, Anonymous} : LockedCheck(u)

Spec == Init /\ [][Next]_vars

----------------------------------------------------------------------------
(* Properties of Spec *)

\* the last step was a login request that LoginSerializer.validate refused
\* for a wrong password (record_failed_attempt) and nothing happened since
JustFailed ==
    /\ result.op = "login"
    /\ result.outcome = "wrong_password"
    /\ result.at = now

\* C7: counting from an unlocked identity with failed_login_attempts 0, the
\* identity is not locked while fewer than 5 failures have been recorded,
\* and the failure that brings the count to 5 leaves it locked with
\* locked_until equal to the time of that call plus 30 minutes.
C7_LockoutThreshold ==
    /\ user.failed_login_attempts < LockThreshold =>
           /\ user.locked_until = {}
           /\ ~is_account_locked(user, now)
    /\ (JustFailed /\ user.failed_login_attempts = LockThreshold) =>
           /\ user.locked_until = {result.at + LockoutSeconds}
           /\ is_account_locked(user, now)

\* C7 witness: the fifth consecutive failure has just locked the identity
C7_Witness ==
    /\ JustFailed
    /\ result.before.failed_login_attempts = LockThreshold - 1
    /\ ~is_account_locked(result.before, now)
    /\ user.failed_login_attempts = LockThreshold
    /\ is_account_locked(user, now)

\* C8: from every state of the identity, reset_failed_login_attempts gives
\* failed_login_attempts 0 and locked_until None and changes nothing else,
\* a second reset gives the same row again, and this is the row a
\* successful login and a cleanup reset leave behind.
C8_ResetIdempotent ==
    LET r == reset_failed_login_attempts(user)
    IN  /\ r.failed_login_attempts = 0
        /\ r.locked_until = {}
        /\ r = [user EXCEPT !.failed_login_attempts = 0, !.locked_until = {}]
        /\ reset_failed_login_attempts(r) = r
        /\ ( /\ result.op \in {"login", "cleanup"}
             /\ result.at = now
             /\ \/ result.op = "login" /\ result.outcome = "ok"
                \/ result.op = "cleanup" /\ result.count = 1 )
           => /\ user.failed_login_attempts = 0
              /\ user.locked_until = {}
              /\ reset_failed_login_attempts(user) = user

\* C8 witness: a reset has just cleared a count of 5 and a lock
C8_Witness ==
    /\ result.op = "cleanup"
    /\ result.count = 1
    /\ result.at = now
    /\ result.before.failed_login_attempts >= LockThreshold
    /\ result.before.locked_until # {}
    /\ user.failed_login_attempts = 0
    /\ user.locked_until = {}

LockedAt(u, t) ==
    /\ u.locked_until # {}
    /\ \A l \in u.locked_until : t < l

\* C20: at every time t the identity counts as locked, for
\* is_account_locked and for IsNotLocked, iff locked_until is set and
\* greater than t, whatever the stored status is; once the cooldown has
\* elapsed the unchanged row is not locked any more.
C20_IsLockedPure ==
    /\ is_account_locked(user, now) <=> LockedAt(user, now)
    /\ (\E l \in user.locked_until : l <= now) =>
           /\ ~is_account_locked(user, now)
           /\ IsNotLocked_has_permission(user, now) = Allow
    /\ (result.op = "IsNotLocked" /\ result.user.is_authenticated) =>
           /\ result.view.allowed <=> ~LockedAt(result.user, result.at)
           /\ result.object = result.view

\* C20 witness: the cooldown of a locked identity has elapsed, the row still
\* holds the count and the timestamp of the lock, and IsNotLocked allows it
C20_Witness ==
    /\ user.failed_login_attempts >= LockThreshold
    /\ \E l \in user.locked_until : l <= now
    /\ result.op = "IsNotLocked"
    /\ result.at = now
    /\ result.user = user
    /\ result.view = Allow

\* the last step was a failed login that took the identity from unlocked to
\* locked
JustLocked ==
    /\ JustFailed
    /\ ~is_account_locked(result.before, result.at)
    /\ is_account_locked(user, now)

\* the last step was a reset of the identity: a successful login or a
\* cleanup run that matched it
JustReset ==
    /\ result.op \in {"login", "cleanup"}
    /\ result.at = now
    /\ \/ result.op = "login" /\ result.outcome \in {"ok", "audit_error"}
       \/ result.op = "cleanup" /\ result.count = 1

\* C21: in every lockout cycle the identity goes from unlocked to locked
\* only by the fifth failure counted since it was last unlocked (the row the
\* locking failure acts on holds four failures, also when the cycle started
\* at the expiry of an earlier lockout), and it is unlocked again once the
\* cooldown has elapsed and right after a reset.
C21_LockoutStateMachine ==
    /\ JustLocked =>
           result.before.failed_login_attempts = LockThreshold - 1
    /\ (\E l \in user.locked_until : l <= now) =>
           ~is_account_locked(user, now)
    /\ JustReset => ~is_account_locked(user, now)

LoginAccepted ==
    /\ result.op = "login"
    /\ result.outcome \in {"ok", "audit_error"}

\* C26: LoginSerializer.validate returns the user, and the view then issues
\* a session and tokens and the failure count is reset, only when can_login
\* holds for the row the request found: status active, not locked, password
\* not expired; a row of any other status is refused even with the correct
\* password.
C26_LoginOnlyIfCanLogin ==
    /\ LoginAccepted => can_login(result.before, result.at)
    /\ (LoginAccepted /\ result.at = now) =>
           /\ result.session_id > 0
           /\ user.failed_login_attempts = 0

----------------------------------------------------------------------------
(* Specification SpecRate: one identity calls one rate limiter, one call   *)
(* at a time, while the clock advances.                                    *)

\* RateLimitPermission(rate_limit_key, max_requests, window_seconds)
max_requests == 3

window_seconds == 60

\* settings.RATE_LIMIT_CONFIG['login']
LoginLimit == 5

LoginWindow == 300

Limiters ==
    { [kind |-> "permission", limit |-> max_requests,
       window |-> window_seconds],
      [kind |-> "service", limit |-> LoginLimit, window |-> LoginWindow] }

\* the clock advances by half a window, up to MaxHalfWindows half windows
MaxHalfWindows == 5

\* calls recorded per behaviour beyond the limit
MaxExtraCalls == 2

RateUser ==
    [is_authenticated |-> TRUE, id |-> 1, role |-> "faculty",
     status |-> "active",
     institution |-> "T1", custom |-> [p \in {} |-> TRUE],
     failed_login_attempts |-> 0, locked_until |-> {},
     password_expires_at |-> {PasswordDays * 86400},
     two_factor_enabled |-> FALSE]

RateInit ==
    /\ now = 0
    /\ user = RateUser
    /\ institutions = [t \in Tenants |-> TRUE]
    /\ limiter \in Limiters
    /\ cache = {}
    /\ sessions = <<>>
    /\ result = NoResult
    /\ history = <<>>
    /\ reqs = <<>>
    /\ audit_logs = <<>>

RateTick ==
    /\ now + limiter.window \div 2 <= MaxHalfWindows * (limiter.window \div 2)
    /\ now' = now + limiter.window \div 2
    /\ UNCHANGED <<user, institutions, limiter, cache, sessions, result,
                   history, reqs, audit_logs>>

\* a request reaches a view guarded by RateLimitPermission; with the cache
\* unreachable cache.get raises and the request ends in that exception
PermissionRequest(u, store_up) ==
    LET r == RateLimitPermission_has_permission(u, cache, now, limiter.limit,
                                                limiter.window)
        counted == u.is_authenticated /\ store_up
    IN  /\ limiter.kind = "permission"
        /\ counted => Len(history) < limiter.limit + MaxExtraCalls
        /\ cache' = IF counted THEN r.cache ELSE cache
        /\ result' =
               [op |-> "RateLimitPermission", at |-> now,
                authenticated |-> u.is_authenticated,
                store_up |-> store_up \/ ~u.is_authenticated,
                outcome |-> IF u.is_authenticated /\ ~store_up
                            THEN "exception"
                            ELSE IF r.decision.allowed THEN "allowed"
                            ELSE "rate_limited",
                error |-> u.is_authenticated /\ ~store_up]
        /\ history' = IF counted
                      THEN Append(history, [at |-> now,
                                            allowed |-> r.decision.allowed])
                      ELSE history
        /\ UNCHANGED <<now, user, institutions, limiter, sessions, reqs,
                       audit_logs>>

\* a caller asks SecurityService.check_rate_limit(user.id, 'login')
ServiceCheck(store_up) ==
    LET r == check_rate_limit(cache, now, limiter.limit, limiter.window,
                              store_up)
    IN  /\ limiter.kind = "service"
        /\ store_up => Len(history) < limiter.limit + MaxExtraCalls
        /\ cache' = r.cache
        /\ result' =
               [op |-> "check_rate_limit", at |-> now,
                authenticated |-> TRUE,
                store_up |-> store_up,
                outcome |-> IF r.allowed THEN "allowed" ELSE "rate_limited",
                error |-> r.error]
        /\ history' = IF store_up
                      THEN Append(history, [at |-> now,
                                            allowed |-> r.allowed])
                      ELSE history
        /\ UNCHANGED <<now, user, institutions, limiter, sessions, reqs,
                       audit_logs>>

\* resources of the own tenant and of another tenant
GuardedObjects == {[kind |-> "inst", tenant |-> t] : t \in Tenants}

\* a request reaches a view whose permission_classes are HasPermission(perm)
\* followed by RateLimitPermission, and the view then fetches obj.  DRF runs
\* has_permission of each class in the listed order when the view is entered
\* and stops at the first False; has_object_permission of each class runs
\* when the object is fetched (RateLimitPermission defines none).
GuardedRequest(u, perm, obj) ==
    LET view == HasPermission_has_permission(u, perm)
        r == RateLimitPermission_has_permission(u, cache, now, limiter.limit,
                                                limiter.window)
        decision == IF ~view.allowed THEN view
                    ELSE IF ~r.decision.allowed THEN r.decision
                    ELSE HasPermission_has_object_permission(u, perm, obj)
    IN  /\ limiter.kind = "permission"
        /\ view.allowed => Len(history) < limiter.limit + MaxExtraCalls
        /\ cache' = IF view.allowed THEN r.cache ELSE cache
        /\ result' =
               [op |-> "GuardedRequest", at |-> now,
                authenticated |-> u.is_authenticated,
                store_up |-> TRUE,
                outcome |-> IF decision.allowed THEN "allowed"
                            ELSE IF decision.reason = "RATE_LIMITED"
                            THEN "rate_limited" ELSE "denied",
                error |-> FALSE,
                decision |-> decision,
                cache_before |-> cache]
        /\ history' = IF view.allowed
                      THEN Append(history, [at |-> now,
                                            allowed |-> r.decision.allowed])
                      ELSE history
        /\ UNCHANGED <<now, user, institutions, limiter, sessions, reqs,
                       audit_logs>>

RateNext ==
    \/ RateTick
    \/ \E u \in {user, Anonymous}, perm \in Perms, obj \in GuardedObjects :
           GuardedRequest(u, perm, obj)
    \/ \E u \in {user, Anonymous}, store_up \in BOOLEAN :
           PermissionRequest(u, store_up)
    \/ \E store_up \in BOOLEAN : ServiceCheck(store_up)

SpecRate == RateInit /\ [][RateNext]_vars

----------------------------------------------------------------------------
(* Properties of SpecRate *)

\* the window of call i when windows are fixed: the first call opens a
\* window, a call made a full window or more after the opening of the
\* current window opens the next one
RECURSIVE WindowStart(_, _, _)
WindowStart(h, i, w) ==
    IF i = 1 THEN h[1].at
    ELSE LET ws == WindowStart(h, i - 1, w)
         IN  IF h[i].at >= ws + w THEN h[i].at ELSE ws

CallsBeforeInWindow(h, i, w) ==
    Cardinality({j \in 1..(i - 1) : WindowStart(h, j, w) = WindowStart(h, i, w)})

\* C5: for sequential calls of one identity, the first L calls of a window
\* are allowed, further calls in the window are denied (RATE_LIMITED), and
\* a call made after the window has elapsed is allowed again.
C5_FixedWindow ==
    limiter.kind # "none" =>
        \A i \in 1..Len(history) :
            history[i].allowed <=>
                CallsBeforeInWindow(history, i, limiter.window) < limiter.limit

\* the last allowed call before call i (0 when there is none)
LastAllowed(h, i) ==
    LET before == {j \in 1..(i - 1) : h[j].allowed}
    IN  IF before = {} THEN 0 ELSE CHOOSE j \in before : \A k \in before : k <= j

\* allowed calls up to the allowed call j that followed one another by less
\* than a window
RECURSIVE ChainLen(_, _, _)
ChainLen(h, j, w) ==
    LET p == LastAllowed(h, j)
    IN  IF p = 0 \/ h[j].at - h[p].at >= w THEN 1
        ELSE 1 + ChainLen(h, p, w)

\* allowed calls that count against call i
Counted(h, i, w) ==
    LET p == LastAllowed(h, i)
    IN  IF p = 0 \/ h[i].at - h[p].at >= w THEN 0 ELSE ChainLen(h, p, w)

\* What the limiters do with the store reachable: a call is denied iff L
\* allowed calls precede it, each made less than W after the one before and
\* the last of them less than W before the call, so the counter runs out W
\* after the most recent allowed call.
AnchoredWindow ==
    limiter.kind # "none" =>
        \A i \in 1..Len(history) :
            history[i].allowed <=>
                Counted(history, i, limiter.window) < limiter.limit

\* C29: the counter key is the one the most recent allowed request wrote:
\* its count is the number of allowed requests chained up to that request
\* and it expires window_seconds after that request, not after the first
\* request of the window; a request denied for the limit leaves the count
\* and the expiry as they were, and an unauthenticated request is allowed
\* and leaves the key alone.
C29_WindowAnchoring ==
    limiter.kind # "none" =>
        LET p == LastAllowed(history, Len(history) + 1)
        IN  /\ cache = IF p = 0 THEN {}
                       ELSE {[count |-> ChainLen(history, p, limiter.window),
                              expires |-> history[p].at + limiter.window]}
            /\ ( /\ result.op = "RateLimitPermission"
                 /\ ~result.authenticated )
               => result.outcome = "allowed"

\* C29 witness: a request allowed half a window after the first one has
\* just moved the expiry of the counter to a full window from now
C29_Witness ==
    /\ limiter.kind = "permission"
    /\ result.op = "RateLimitPermission"
    /\ result.outcome = "allowed"
    /\ result.authenticated
    /\ result.at = now
    /\ Len(history) >= 2
    /\ history[1].at < now
    /\ now < history[1].at + limiter.window
    /\ cache = {[count |-> 2, expires |-> now + limiter.window]}

\* C23: a request that an earlier check denies (authentication, tenant,
\* capability) leaves the rate-limit counter of the identity and its expiry
\* as they were: only requests that reach the rate-limit step are charged.
C23_ChargedOnlyAtRateStep ==
    ( /\ result.op = "GuardedRequest"
      /\ result.at = now
      /\ ~result.decision.allowed
      /\ result.decision.reason # "RATE_LIMITED" )
    => cache = result.cache_before

\* C6: when the rate-limit store cannot be reached the check never lets the
\* request through, and the outcome is told apart from an ordinary
\* RATE_LIMITED denial.
C6_FailClosed ==
    ( /\ result.op \in {"RateLimitPermission", "check_rate_limit"}
      /\ ~result.store_up )
    => /\ result.outcome # "allowed"
       /\ result.outcome # "rate_limited"
       /\ result.error

----------------------------------------------------------------------------
(* Specification SpecConcLogin: NumLogins login requests with a wrong      *)
(* password for the same identity, handled in parallel.  Each handler      *)
(* loads the row (User.objects.get) and later saves its own instance.      *)

NumLogins == 5

NoRow == [is_authenticated |-> FALSE]

ConcLoginInit ==
    /\ now = 0
    /\ user = RateUser
    /\ institutions = [t \in Tenants |-> TRUE]
    /\ limiter = NoLimiter
    /\ cache = {}
    /\ sessions = <<>>
    /\ result = NoResult
    /\ history = <<>>
    /\ reqs = [r \in 1..NumLogins |-> [pc |-> "start", instance |-> NoRow]]
    /\ audit_logs = <<>>

\* LoginSerializer.validate: user = User.objects.get(email=email)
LoadUser(r) ==
    /\ reqs[r].pc = "start"
    /\ reqs' = [reqs EXCEPT ![r] = [pc |-> "loaded", instance |-> user]]
    /\ UNCHANGED <<now, user, institutions, limiter, cache, sessions, result,
                   history, audit_logs>>

\* LoginSerializer.validate from check_password on: the password is wrong,
\* increment_failed_login_attempts runs on the loaded instance and saves
\* its two fields
FailPassword(r) ==
    LET v == LoginSerializer_validate(reqs[r].instance, TRUE, FALSE, "", now)
        row == save_login_fields(user, v.user)
    IN  /\ reqs[r].pc = "loaded"
        /\ user' = row
        /\ reqs' = [reqs EXCEPT ![r] = [pc |-> "done", instance |-> v.user]]
        /\ result' = [op |-> "login", at |-> now, before |-> user,
                      password_ok |-> FALSE, outcome |-> v.outcome,
                      session_id |-> 0, log_called |-> FALSE,
                      store_up |-> TRUE, audited |-> FALSE]
        /\ history' =
               IF is_account_locked(row, now) # is_account_locked(user, now)
               THEN Append(history,
                           IF is_account_locked(row, now)
                           THEN "locked" ELSE "unlocked")
               ELSE history
        /\ UNCHANGED <<now, institutions, limiter, cache, sessions,
                       audit_logs>>

ConcLoginNext == \E r \in 1..NumLogins : LoadUser(r) \/ FailPassword(r)

SpecConcLogin == ConcLoginInit /\ [][ConcLoginNext]_vars

AllLoginsDone == \A r \in DOMAIN reqs : reqs[r].pc = "done"

\* C3: once all N concurrent failed attempts have finished, the stored
\* failed_login_attempts equals N and, N having reached the threshold, the
\* identity is locked and went from unlocked to locked exactly once.
C3_NoLostFailure ==
    (reqs # <<>> /\ AllLoginsDone) =>
        /\ user.failed_login_attempts = NumLogins
        /\ NumLogins >= LockThreshold =>
               /\ is_account_locked(user, now)
               /\ history = <<"locked">>

----------------------------------------------------------------------------
(* Specification SpecConcRate: limit + ExtraRequests requests of one       *)
(* identity go through one rate limiter in parallel.  Each handler reads   *)
(* the counter and later writes it.                                        *)

ExtraRequests == 1

ConcRateInit ==
    /\ now = 0
    /\ user = RateUser
    /\ institutions = [t \in Tenants |-> TRUE]
    /\ limiter \in Limiters
    /\ cache = {}
    /\ sessions = <<>>
    /\ result = NoResult
    /\ history = <<>>
    /\ reqs = [r \in 1..(limiter.limit + ExtraRequests) |->
                   [pc |-> "start", current_count |-> 0, allowed |-> FALSE]]
    /\ audit_logs = <<>>

\* current_count = cache.get(cache_key, 0); redis_client.get(key)
ReadCounter(r) ==
    /\ reqs[r].pc = "start"
    /\ reqs' = [reqs EXCEPT ![r] = [pc |-> "read",
                                    current_count |-> cache_get(cache, now),
                                    allowed |-> FALSE]]
    /\ UNCHANGED <<now, user, institutions, limiter, cache, sessions, result,
                   history, audit_logs>>

\* the comparison with the limit and, below it, the write:
\* cache.set(cache_key, current_count + 1, window_seconds) in the
\* permission class, INCR and EXPIRE of the key in the service
WriteCounter(r) ==
    LET allowed == reqs[r].current_count < limiter.limit
        value == IF limiter.kind = "permission"
                 THEN reqs[r].current_count + 1
                 ELSE cache_get(cache, now) + 1
    IN  /\ reqs[r].pc = "read"
        /\ cache' = IF allowed THEN cache_set(value, limiter.window, now)
                    ELSE cache
        /\ reqs' = [reqs EXCEPT ![r].pc = "done", ![r].allowed = allowed]
        /\ result' = [op |-> IF limiter.kind = "permission"
                             THEN "RateLimitPermission"
                             ELSE "check_rate_limit",
                      at |-> now, authenticated |-> TRUE, store_up |-> TRUE,
                      outcome |-> IF allowed THEN "allowed"
                                  ELSE "rate_limited",
                      error |-> FALSE]
        /\ UNCHANGED <<now, user, institutions, limiter, sessions, history,
                       audit_logs>>

ConcRateNext == \E r \in DOMAIN reqs : ReadCounter(r) \/ WriteCounter(r)

SpecConcRate == ConcRateInit /\ [][ConcRateNext]_vars

AllowedRequests == {r \in DOMAIN reqs : reqs[r].pc = "done" /\ reqs[r].allowed}

\* C4: under every interleaving of the requests of one identity, no more
\* than max_requests requests are allowed within the window, and the
\* counter holds the number of requests allowed (no update is lost).
C4_AtomicCounter ==
    limiter.kind # "none" =>
        /\ Cardinality(AllowedRequests) <= limiter.limit
        /\ cache_get(cache, now) = Cardinality(AllowedRequests)

----------------------------------------------------------------------------
(* Specification SpecConcCleanup: the periodic task                        *)
(* cleanup_failed_login_attempts runs while login requests with a wrong    *)
(* password for the same identity are handled and the clock advances.  The *)
(* task loads the rows its filter matches and later saves each reset       *)
(* instance; a login handler loads the row and later saves its instance.   *)

\* login requests in flight next to the task
CleanupLogins == 2

\* the place of the task in reqs
CleanupTask == CleanupLogins + 1

\* the row after k wrong passwords given at time t
RECURSIVE RowAfterFailures(_, _, _)
RowAfterFailures(u, k, t) ==
    IF k = 0 THEN u
    ELSE increment_failed_login_attempts(RowAfterFailures(u, k - 1, t), t)

ConcCleanupInit ==
    /\ now = 0
    /\ user \in {RowAfterFailures(RateUser, k, 0) : k \in 0..LockThreshold}
    /\ institutions = [t \in Tenants |-> TRUE]
    /\ limiter = NoLimiter
    /\ cache = {}
    /\ sessions = <<>>
    /\ result = NoResult
    /\ history = <<>>
    /\ reqs = [r \in 1..CleanupTask |-> [pc |-> "start", instance |-> NoRow]]
    /\ audit_logs = <<>>

\* for user in users_to_reset: the queryset is evaluated, the instances of
\* the rows that match the filter at that moment are loaded
CleanupSelect ==
    /\ reqs[CleanupTask].pc = "start"
    /\ reqs' = [reqs EXCEPT ![CleanupTask] =
                    [pc |-> "selected",
                     instance |-> IF cleanup_matches(user, now) THEN user
                                  ELSE NoRow]]
    /\ UNCHANGED <<now, user, institutions, limiter, cache, sessions, result,
                   history, audit_logs>>

\* user.reset_failed_login_attempts() on the loaded instance: its two fields
\* are cleared and written into the stored row
CleanupReset ==
    LET selected == reqs[CleanupTask].instance
        matched == selected # NoRow
    IN  /\ reqs[CleanupTask].pc = "selected"
        /\ user' = IF matched
                   THEN save_login_fields(user,
                                          reset_failed_login_attempts(selected))
                   ELSE user
        /\ reqs' = [reqs EXCEPT ![CleanupTask].pc = "done"]
        /\ result' = [op |-> "cleanup", at |-> now, before |-> user,
                      count |-> IF matched THEN 1 ELSE 0]
        /\ UNCHANGED <<now, institutions, limiter, cache, sessions, history,
                       audit_logs>>

ConcCleanupNext ==
    \/ Tick
    \/ \E r \in 1..CleanupLogins : LoadUser(r) \/ FailPassword(r)
    \/ CleanupSelect
    \/ CleanupReset

SpecConcCleanup == ConcCleanupInit /\ [][ConcCleanupNext]_vars

\* C28: under every interleaving with failed logins of the same identity,
\* the cleanup task resets a row (count 0, locked_until None) only when the
\* locked_until of the stored row is in the past at the moment of the
\* reset, and a run that resets nothing leaves the row unchanged.
C28_CleanupKeepsLiveLockout ==
    (result.op = "cleanup" /\ result.at = now) =>
        IF result.count = 1
        THEN /\ \E l \in result.before.locked_until : l < result.at
             /\ ~is_account_locked(result.before, result.at)
             /\ user.failed_login_attempts = 0
             /\ user.locked_until = {}
        ELSE user = result.before

----------------------------------------------------------------------------
(* Specification SpecSession: one identity logs in, its requests go        *)
(* through SessionPermission, the task cleanup_expired_sessions runs and   *)
(* the clock advances past the expiry of the sessions; one handler at a    *)
(* time.                                                                   *)

\* the clock advances by half the lifetime of a session that is not
\* remembered, up to MaxSessionTicks such steps
MaxSessionTicks == 7

SessionTickSeconds == (SessionHours(FALSE) * 3600) \div 2

\* UserSession.is_expired
is_expired(session, t) == t > session.expires_at

\* SessionPermission.has_permission for the sessions ss of request.user at
\* time t.  The loop evaluates the queryset filter(is_active=True) and keeps
\* the loaded instances; exists() on the evaluated queryset answers from the
\* instances it holds and runs no second query.
SessionPermission_has_permission(u, ss, t) ==
    IF ~u.is_authenticated
    THEN [decision |-> Deny("NOT_AUTHENTICATED"), sessions |-> ss]
    ELSE LET active_sessions == {i \in DOMAIN ss : ss[i].is_active}
         IN  [decision |-> IF active_sessions # {} THEN Allow
                           ELSE Deny("NO_ACTIVE_SESSION"),
              sessions |->
                  [i \in DOMAIN ss |->
                      IF i \in active_sessions /\ is_expired(ss[i], t)
                      THEN [ss[i] EXCEPT !.is_active = FALSE]
                      ELSE ss[i]]]

\* tasks.cleanup_expired_sessions: filter(expires_at__lt=now,
\* is_active=True).update(is_active=False)
cleanup_expired_sessions(ss, t) ==
    [i \in DOMAIN ss |->
        IF ss[i].expires_at < t /\ ss[i].is_active
        THEN [ss[i] EXCEPT !.is_active = FALSE]
        ELSE ss[i]]

SessionInit ==
    /\ now = 0
    /\ user = RateUser
    /\ institutions = [t \in Tenants |-> TRUE]
    /\ limiter = NoLimiter
    /\ cache = {}
    /\ sessions = <<>>
    /\ result = NoResult
    /\ history = <<>>
    /\ reqs = <<>>
    /\ audit_logs = <<>>

SessionTick ==
    /\ now + SessionTickSeconds <= MaxSessionTicks * SessionTickSeconds
    /\ now' = now + SessionTickSeconds
    /\ UNCHANGED <<user, institutions, limiter, cache, sessions, result,
                   history, reqs, audit_logs>>

\* a request of the identity (or an anonymous one) reaches a view guarded
\* by SessionPermission
SessionCheck(u) ==
    LET r == SessionPermission_has_permission(u, sessions, now)
    IN  /\ sessions' = r.sessions
        /\ result' = [op |-> "SessionPermission", at |-> now, user |-> u,
                      before |-> sessions, decision |-> r.decision]
        /\ UNCHANGED <<now, user, institutions, limiter, cache, history,
                       reqs, audit_logs>>

CleanupExpiredSessions ==
    /\ sessions' = cleanup_expired_sessions(sessions, now)
    /\ result' = [op |-> "cleanup_expired_sessions", at |-> now,
                  before |-> sessions]
    /\ UNCHANGED <<now, user, institutions, limiter, cache, history, reqs,
                   audit_logs>>

SessionNext ==
    \/ SessionTick
    \/ \E remember_me \in BOOLEAN : Login(TRUE, TRUE, "", remember_me)
    \/ \E u \in {user, Anonymous} : SessionCheck(u)
    \/ CleanupExpiredSessions

SpecSession == SessionInit /\ [][SessionNext]_vars

\* a session that is active and not expired at time t
LiveSession(ss, t) ==
    \E i \in DOMAIN ss : ss[i].is_active /\ ~is_expired(ss[i], t)

\* C30: SessionPermission first deactivates every active, expired session of
\* the user and then grants access iff the user still has an active
\* session; so access is granted only when an active, unexpired session
\* exists, and after the call no session of the user is active and expired.
C30_SessionGate ==
    ( /\ result.op = "SessionPermission"
      /\ result.at = now
      /\ result.user.is_authenticated )
    => /\ result.decision.allowed <=>
              \E i \in DOMAIN sessions : sessions[i].is_active
       /\ result.decision.allowed => LiveSession(sessions, now)
       /\ \A i \in DOMAIN sessions :
              ~(sessions[i].is_active /\ is_expired(sessions[i], now))

----------------------------------------------------------------------------
(* Specification SpecCache: requests of one identity call has_permission,  *)
(* which reads the capabilities through the cache key of the identity,     *)
(* while an administrator changes the role of the identity and the clock   *)
(* advances.  A request handler loads request.user when it authenticates   *)
(* and calls has_permission on that instance later.                        *)

\* request handlers per behaviour
CacheRequests == 2

\* role changes per behaviour
MaxRoleChanges == 1

\* a handler calls has_permission at most this many seconds after it loaded
\* request.user
MaxRequestSeconds == 2

\* the clock advances by one second less than the timeout of the key and,
\* in the seconds that follow a multiple of the timeout, by one second, up
\* to MaxCacheTime
MaxCacheTime == 303

CacheInit ==
    /\ now = 0
    /\ user = RateUser
    /\ institutions = [t \in Tenants |-> TRUE]
    /\ limiter = NoLimiter
    /\ cache = {}
    /\ sessions = <<>>
    /\ result = NoResult
    /\ history = <<>>
    /\ reqs = [r \in 1..CacheRequests |->
                   [pc |-> "start", instance |-> NoRow, loaded_at |-> 0]]
    /\ audit_logs = <<>>

CacheTick(seconds) ==
    /\ now + seconds <= MaxCacheTime
    /\ seconds = 1 => now % PermissionsTTL <= MaxRequestSeconds
    /\ now' = now + seconds
    /\ UNCHANGED <<user, institutions, limiter, cache, sessions, result,
                   history, reqs, audit_logs>>

\* the role column of the row is written: UserUpdateSerializer.update
\* (setattr and instance.save()) or bulk_action change_role
\* (users.update(role=new_role)); neither touches the cache key
ChangeRole(new_role) ==
    /\ Len(history) < MaxRoleChanges
    /\ new_role # user.role
    /\ user' = [user EXCEPT !.role = new_role]
    /\ history' = Append(history, [at |-> now, role |-> new_role])
    /\ result' = [op |-> "change_role", at |-> now, before |-> user]
    /\ UNCHANGED <<now, institutions, limiter, cache, sessions, reqs,
                   audit_logs>>

\* authentication loads request.user from the row
Authenticate(r) ==
    /\ reqs[r].pc = "start"
    /\ reqs' = [reqs EXCEPT ![r] = [pc |-> "loaded", instance |-> user,
                                    loaded_at |-> now]]
    /\ UNCHANGED <<now, user, institutions, limiter, cache, sessions, result,
                   history, audit_logs>>

\* request.user.has_permission(permission): get_permissions on the loaded
\* instance, then the lookup in the dict it returned
CallHasPermission(r, permission) ==
    LET g == get_permissions_cached(reqs[r].instance, cache, now)
    IN  /\ reqs[r].pc = "loaded"
        /\ now <= reqs[r].loaded_at + MaxRequestSeconds
        /\ cache' = g.cache
        /\ reqs' = [reqs EXCEPT ![r].pc = "done"]
        /\ result' = [op |-> "has_permission", at |-> now,
                      permission |-> permission,
                      permissions |-> g.permissions,
                      allowed |-> \/ "all_permissions" \in g.permissions
                                  \/ permission \in g.permissions]
        /\ UNCHANGED <<now, user, institutions, limiter, sessions, history,
                       audit_logs>>

CacheNext ==
    \/ \E seconds \in {1, PermissionsTTL - 1} : CacheTick(seconds)
    \/ \E new_role \in {"student", "admin"} : ChangeRole(new_role)
    \/ \E r \in 1..CacheRequests :
           \/ Authenticate(r)
           \/ \E permission \in Perms : CallHasPermission(r, permission)

SpecCache == CacheInit /\ [][CacheNext]_vars

\* C24: a has_permission call made more than 300 s after the role of the
\* identity was changed decides on the capabilities of the new role, also
\* when other requests read or refill the cache key around the change.
C24_BoundedStaleness ==
    ( /\ result.op = "has_permission"
      /\ result.at = now
      /\ history # <<>>
      /\ \A i \in DOMAIN history : now > history[i].at + PermissionsTTL )
    => /\ result.permissions = effective_capabilities(user)
       /\ result.allowed <=> has_permission(user, result.permission)

----------------------------------------------------------------------------
(* core/services.py: ComplianceService, and specification SpecCompliance:  *)
(* callers evaluate actions with check_compliance and the periodic task    *)
(* compliance_check runs.  An optional user is a set ({} is None); the     *)
(* violations are kept as a set of messages.                               *)

\* the actions the rule functions test for, the action of the task's second
\* call and one action no rule names
ComplianceActions ==
    {"data_processing", "data_deletion", "share_educational_records",
     "share_student_data", "data_retention", "access_control",
     "educational_records_protection", "view_profile"}

\* len(data): below and above the data-minimization threshold (10)
DataSizes == {1, 11}

\* the attributes of User the rule functions read
ComplianceUsers ==
    [role : {"student", "faculty", "admin"},
     privacy_consent : BOOLEAN,
     data_deletion_requested : BOOLEAN]

\* the evaluation raises AttributeError: an attribute of None is read, or
\* user.age, which class User does not define (age is a property of
\* UserProfile)
rule_raises(action, subject) ==
    \/ /\ subject = {}
       /\ action \in {"data_processing", "data_deletion",
                      "share_educational_records", "share_student_data"}
    \/ subject # {} /\ action = "share_student_data"

\* ComplianceService._check_gdpr_compliance: its violations
check_gdpr_compliance(action, size, subject) ==
    (IF size > 10 THEN {"Data minimization principle violated"} ELSE {})
    \cup (IF action = "data_processing"
             /\ \E u \in subject : ~u.privacy_consent
          THEN {"Explicit consent required for data processing"} ELSE {})
    \cup (IF action = "data_deletion"
             /\ \E u \in subject : ~u.data_deletion_requested
          THEN {"Data deletion request not properly documented"} ELSE {})

\* ComplianceService._check_ferpa_compliance: its violations (the test of
\* user.age raises before it can add one)
check_ferpa_compliance(action, size, subject) ==
    IF action = "share_educational_records"
       /\ \E u \in subject : u.role \notin {"faculty", "admin"}
    THEN {"Unauthorized access to educational records"} ELSE {}

\* ComplianceService._check_institutional_policies: _check_retention_policy
\* and _check_access_permissions return True
check_institutional_policies(action, size, subject) == {}

\* ComplianceService.check_compliance: the dict it returns; the except
\* branch returns {'compliant': False, 'error': ...}
check_compliance(action, size, subject) ==
    IF rule_raises(action, subject)
    THEN [compliant |-> FALSE, error |-> TRUE]
    ELSE LET violations ==
                 check_gdpr_compliance(action, size, subject)
                     \cup check_ferpa_compliance(action, size, subject)
                     \cup check_institutional_policies(action, size, subject)
         IN  [compliant |-> violations = {},
              violations |-> violations,
              audit_required |-> violations # {},
              error |-> FALSE]

ComplianceInit ==
    /\ now = 0
    /\ user = RateUser
    /\ institutions \in [Tenants -> BOOLEAN]
    /\ limiter = NoLimiter
    /\ cache = {}
    /\ sessions = <<>>
    /\ result = NoResult
    /\ history = <<>>
    /\ reqs = <<>>
    /\ audit_logs = <<>>

\* a caller evaluates an action; audit_queue is the content of
\* ComplianceService.audit_queue after the call (nothing in the code puts
\* an event on it), and no AuditLog row is created
Evaluate(action, size, u) ==
    /\ result' = [op |-> "check_compliance", action |-> action,
                  size |-> size, user |-> u, returned |-> TRUE,
                  value |-> check_compliance(action, size, u),
                  audit_queue |-> <<>>]
    /\ UNCHANGED <<now, user, institutions, limiter, cache, sessions,
                   history, reqs, audit_logs>>

\* tasks.compliance_check: for every active institution two evaluations
\* with user None; a result that is not compliant is logged as a warning
ComplianceCheckTask ==
    LET gdpr == check_compliance("data_processing", 1, {})
        ferpa == check_compliance("educational_records_protection", 1, {})
        checked == {t \in Tenants : institutions[t]}
    IN  /\ result' = [op |-> "compliance_check", checked |-> checked,
                      gdpr |-> gdpr, ferpa |-> ferpa,
                      warnings |-> {<<t, "GDPR">> : t \in
                                       {c \in checked : ~gdpr.compliant}}
                                   \cup
                                   {<<t, "FERPA">> : t \in
                                       {c \in checked : ~ferpa.compliant}},
                      audit_queue |-> <<>>]
        /\ UNCHANGED <<now, user, institutions, limiter, cache, sessions,
                       history, reqs, audit_logs>>

ComplianceNext ==
    \/ \E action \in ComplianceActions, size \in DataSizes,
          u \in {{}} \cup {{cu} : cu \in ComplianceUsers} :
           Evaluate(action, size, u)
    \/ ComplianceCheckTask

SpecCompliance == ComplianceInit /\ [][ComplianceNext]_vars

\* the findings of the last evaluation (none when it ended in the except
\* branch, whose dict has no violations)
Findings == IF result.value.error THEN {} ELSE result.value.violations

\* C25: check_compliance always returns to its caller, and an evaluation
\* with findings sets audit_required, puts the event on the audit queue and
\* leaves an audit record of severity high or critical, while an evaluation
\* without findings does none of these.
C25_FindingsEscalate ==
    result.op = "check_compliance" =>
        /\ result.returned
        /\ IF Findings # {}
           THEN /\ result.value.audit_required
                /\ result.audit_queue # <<>>
                /\ \E i \in DOMAIN audit_logs :
                       audit_logs[i].severity \in {"high", "critical"}
           ELSE /\ ~result.value.error => ~result.value.audit_required
                /\ result.audit_queue = <<>>
                /\ audit_logs = <<>>

----------------------------------------------------------------------------
(* Specification SpecAudit: administrators act on one user row and on the  *)
(* institutions, every handler writes its audit row after its change, the  *)
(* retention sweep runs, rows are deleted through the foreign keys.        *)
(* Nothing sets ATOMIC_REQUESTS: each save commits when it is executed.    *)

\* COMPLIANCE_CONFIG['audit_log_retention_days']
RetentionDays == 3650

\* the clock advances by half the retention window, up to MaxRetentionHalves
\* half windows
MaxRetentionHalves == 3

RetentionSeconds == RetentionDays * 86400

\* request.user of the administrative requests
Admin1 ==
    [is_authenticated |-> TRUE, id |-> 2, role |-> "admin",
     status |-> "active", institution |-> "T1"]

Root ==
    [is_authenticated |-> TRUE, id |-> 3, role |-> "super_admin",
     status |-> "active", institution |-> None]

Actors == {Admin1, Root}

\* the row the handlers act on: a student of T1 or a super admin without
\* institution
AuditIdentities ==
    [is_authenticated : {TRUE},
     id : {1},
     role : {"student"},
     status : {"active", "suspended"},
     institution : {"T1"},
     custom : {[p \in {} |-> TRUE]},
     failed_login_attempts : {0},
     locked_until : {{}},
     password_expires_at : {{PasswordDays * 86400}},
     two_factor_enabled : {FALSE}]
    \cup
    [is_authenticated : {TRUE},
     id : {1},
     role : {"super_admin"},
     status : {"active"},
     institution : {None},
     custom : {[p \in {} |-> TRUE]},
     failed_login_attempts : {0},
     locked_until : {{}},
     password_expires_at : {{PasswordDays * 86400}},
     two_factor_enabled : {FALSE}]

AuditInit ==
    /\ now = 0
    /\ user \in AuditIdentities
    /\ institutions = [t \in Tenants |-> TRUE]
    /\ limiter = NoLimiter
    /\ cache = {}
    /\ sessions = <<>>
    /\ result = NoResult
    /\ history = <<>>
    /\ reqs = <<>>
    /\ audit_logs = <<>>

\* the actor's row exists: rows of a deleted institution are deleted with it
\* (User.institution, on_delete=CASCADE)
ActorExists(a) ==
    a.institution = None \/ a.institution \in DOMAIN institutions

\* a User row as the object of a permission check: it has the attribute
\* institution
UserObj(u) == [kind |-> "inst", tenant |-> u.institution]

\* UserViewSet.get_queryset: the rows get_object can find for the actor
UserViewSet_get_queryset(a, u) ==
    \/ a.role = "super_admin"
    \/ a.institution # None /\ u.institution = a.institution

\* a detail route of UserViewSet reaches its body: has_permission, then
\* get_object (queryset lookup and has_object_permission)
UserViewSet_get_object(a, u) ==
    /\ IsInstitutionAdmin_has_permission(a).allowed
    /\ UserViewSet_get_queryset(a, u)
    /\ IsInstitutionAdmin_has_object_permission(a, UserObj(u)).allowed

\* IsSuperAdmin.has_permission and has_object_permission
IsSuperAdmin_has_permission(a) ==
    a.is_authenticated /\ a.role = "super_admin"

\* User.save: a missing password_expires_at is set to now + 90 days
User_save(u, t) ==
    IF u.password_expires_at = {}
    THEN [u EXCEPT !.password_expires_at = {t + PasswordDays * 86400}]
    ELSE u

\* rows of audit_logs after user_id is deleted (AuditLog.actor,
\* on_delete=SET_NULL)
actor_set_null(logs, user_id) ==
    [i \in DOMAIN logs |->
        IF user_id \in logs[i].actor THEN [logs[i] EXCEPT !.actor = {}]
        ELSE logs[i]]

\* what a handler that calls log_action leaves in result
Handled(op, actor_id, row, called, store_up) ==
    [op |-> op, actor |-> actor_id, before |-> user,
     institutions_before |-> institutions,
     log_called |-> called, store_up |-> store_up,
     audited |-> called /\ audit_insert_ok(row, store_up),
     audit_id |-> IF called /\ audit_insert_ok(row, store_up) THEN row.id
                  ELSE 0,
     outcome |-> IF called /\ ~audit_insert_ok(row, store_up)
                 THEN "audit_error" ELSE "ok"]

\* the INSERT of log_action, when the handler calls it
WriteAudit(row, called, store_up) ==
    /\ called => Len(history) < MaxAuditLogs
    /\ audit_logs' = IF called /\ audit_insert_ok(row, store_up)
                     THEN Append(audit_logs, row) ELSE audit_logs
    /\ history' = IF called /\ audit_insert_ok(row, store_up)
                  THEN Append(history, row) ELSE history

AuditTick ==
    /\ now + RetentionSeconds \div 2
           <= MaxRetentionHalves * (RetentionSeconds \div 2)
    /\ now' = now + RetentionSeconds \div 2
    /\ UNCHANGED <<user, institutions, limiter, cache, sessions, result,
                   history, reqs, audit_logs>>

\* UserViewSet.activate and UserViewSet.suspend: the status is saved, then
\* the audit row is written
UserSetStatus(op, a, new_status, severity, details, store_up) ==
    LET saved == User_save([user EXCEPT !.status = new_status], now)
        row == log_action(Len(history) + 1, {a}, "update", "User", saved.id,
                          severity, details, NoChanges, now)
    IN  /\ user # NoRow
        /\ ActorExists(a)
        /\ UserViewSet_get_object(a, user)
        /\ user' = saved
        /\ WriteAudit(row, TRUE, store_up)
        /\ result' = Handled(op, a.id, row, TRUE, store_up)
        /\ UNCHANGED <<now, institutions, limiter, cache, sessions, reqs>>

UserActivate(a, store_up) ==
    UserSetStatus("activate", a, "active", "medium", "activated", store_up)

UserSuspend(a, store_up) ==
    UserSetStatus("suspend", a, "suspended", "high", "suspended", store_up)

\* variant: every snapshot field is recorded, changed or not
perform_update_changes_AllFields(old_data, u) ==
    [field \in DOMAIN old_data |-> [old |-> old_data[field], new |-> u[field]]]

\* UserViewSet.perform_update: the loop that builds changes from old_data
\* and the saved instance
perform_update_changes(old_data, u) ==
    [field \in {f \in DOMAIN old_data : old_data[f] # u[f]} |->
        [old |-> old_data[field], new |-> u[field]]]

\* UserViewSet.update with UserUpdateSerializer (role is the one field of
\* old_data the serializer writes): old_data is taken, the instance is
\* saved, and the audit row is written if changes is not empty
PerformUpdate(a, new_role, store_up) ==
    LET old_data == [role |-> user.role, status |-> user.status]
        saved == User_save([user EXCEPT !.role = new_role], now)
        changes == perform_update_changes(old_data, saved)
        called == changes # NoChanges
        row == log_action(Len(history) + 1, {a}, "update", "User", saved.id,
                          "medium", "", changes, now)
    IN  /\ user # NoRow
        /\ ActorExists(a)
        /\ UserViewSet_get_object(a, user)
        /\ user' = saved
        /\ WriteAudit(row, called, store_up)
        /\ result' = Handled("perform_update", a.id, row, called, store_up)
        /\ UNCHANGED <<now, institutions, limiter, cache, sessions, reqs>>

\* UserViewSet.destroy (ModelViewSet): the row is deleted, with it its
\* sessions; its audit rows lose their actor; nothing is logged
DestroyUser(a) ==
    /\ user # NoRow
    /\ ActorExists(a)
    /\ UserViewSet_get_object(a, user)
    /\ user' = NoRow
    /\ sessions' = <<>>
    /\ audit_logs' = actor_set_null(audit_logs, user.id)
    /\ result' = Handled("destroy_user", a.id, NoRow, FALSE, TRUE)
    /\ UNCHANGED <<now, institutions, limiter, cache, history, reqs>>

\* UserViewSet.bulk_action on user_ids = [user.id]: a list route, so only
\* has_permission runs and the rows are not filtered by institution; the
\* update is made inside transaction.atomic, the audit row after it
BulkActions ==
    {"activate", "deactivate", "suspend", "delete", "change_role",
     "send_notification"}

BulkAction(a, action, new_role, store_up) ==
    LET updated ==
            CASE action = "activate" -> [user EXCEPT !.status = "active"]
              [] action = "deactivate" -> [user EXCEPT !.status = "inactive"]
              [] action = "suspend" -> [user EXCEPT !.status = "suspended"]
              [] action = "change_role" -> [user EXCEPT !.role = new_role]
              [] action = "delete" -> NoRow
              [] action = "send_notification" -> user
        logs == IF action = "delete"
                THEN actor_set_null(audit_logs, user.id) ELSE audit_logs
        row == log_action(Len(history) + 1, {a}, "bulk_update", "User",
                          user.id, "medium", action, NoChanges, now)
        ok == audit_insert_ok(row, store_up)
    IN  /\ user # NoRow
        /\ ActorExists(a)
        /\ IsInstitutionAdmin_has_permission(a).allowed
        /\ Len(history) < MaxAuditLogs
        /\ user' = updated
        /\ sessions' = IF action = "delete" THEN <<>> ELSE sessions
        /\ audit_logs' = IF ok THEN Append(logs, row) ELSE logs
        /\ history' = IF ok THEN Append(history, row) ELSE history
        /\ result' = Handled("bulk_action", a.id, row, TRUE, store_up)
        /\ UNCHANGED <<now, institutions, limiter, cache, reqs>>

\* InstitutionViewSet.activate and deactivate (IsSuperAdmin): is_active is
\* saved, then the audit row is written
InstitutionSetActive(op, a, t, active, details, store_up) ==
    LET row == log_action(Len(history) + 1, {a}, "update", "Institution", t,
                          "medium", details, NoChanges, now)
    IN  /\ ActorExists(a)
        /\ IsSuperAdmin_has_permission(a)
        /\ t \in DOMAIN institutions
        /\ institutions' = [institutions EXCEPT ![t] = active]
        /\ WriteAudit(row, TRUE, store_up)
        /\ result' = Handled(op, a.id, row, TRUE, store_up)
        /\ UNCHANGED <<now, user, limiter, cache, sessions, reqs>>

InstitutionActivate(a, t, store_up) ==
    InstitutionSetActive("institution_activate", a, t, TRUE, "activated",
                         store_up)

InstitutionDeactivate(a, t, store_up) ==
    InstitutionSetActive("institution_deactivate", a, t, FALSE,
                         "deactivated", store_up)

\* InstitutionViewSet.destroy (ModelViewSet): the institution is deleted and
\* with it its users (User.institution, CASCADE), their sessions and its
\* audit rows (AuditLog.institution, CASCADE).  The audit rows of a deleted
\* user carry that user's institution, so all of them are among the rows
\* deleted.
DestroyInstitution(a, t) ==
    LET gone == user # NoRow /\ user.institution = t
    IN  /\ ActorExists(a)
        /\ IsSuperAdmin_has_permission(a)
        /\ t \in DOMAIN institutions
        /\ institutions' = [x \in DOMAIN institutions \ {t} |->
                               institutions[x]]
        /\ user' = IF gone THEN NoRow ELSE user
        /\ sessions' = IF gone THEN <<>> ELSE sessions
        /\ audit_logs' = SelectSeq(audit_logs,
                                   LAMBDA r : r.institution # t)
        /\ result' = Handled("destroy_institution", a.id, NoRow, FALSE, TRUE)
        /\ UNCHANGED <<now, limiter, cache, history, reqs>>

\* AuthViewSet.password_reset_request (AllowAny): for a known email the
\* request is logged with actor=None; an unknown email is answered alike
PasswordResetRequest(email_known, store_up) ==
    LET called == email_known /\ user # NoRow
        row == IF called
               THEN log_action(Len(history) + 1, {}, "password_reset",
                               "User", user.id, "medium", "email",
                               NoChanges, now)
               ELSE NoRow
    IN  /\ WriteAudit(row, called, store_up)
        /\ result' = Handled("password_reset_request", 0, row, called,
                             store_up)
        /\ UNCHANGED <<now, user, institutions, limiter, cache, sessions,
                       reqs>>

\* tasks.cleanup_audit_logs: rows with timestamp < now - retention_days are
\* deleted
cleanup_audit_logs(logs, t) ==
    SelectSeq(logs, LAMBDA r : ~(r.timestamp < t - RetentionSeconds))

CleanupAuditLogs ==
    /\ audit_logs' = cleanup_audit_logs(audit_logs, now)
    /\ result' = Handled("cleanup_audit_logs", 0, NoRow, FALSE, TRUE)
    /\ UNCHANGED <<now, user, institutions, limiter, cache, sessions,
                   history, reqs>>

AuditNext ==
    \/ AuditTick
    \/ \E a \in Actors, store_up \in BOOLEAN :
           \/ UserActivate(a, store_up)
           \/ UserSuspend(a, store_up)
           \/ \E new_role \in {"student", "faculty"} :
                  PerformUpdate(a, new_role, store_up)
           \/ \E action \in BulkActions :
                  \E new_role \in IF action = "change_role"
                                  THEN {UnknownRole} ELSE {None} :
                      BulkAction(a, action, new_role, store_up)
           \/ InstitutionActivate(a, "T1", store_up)
           \/ InstitutionDeactivate(a, "T1", store_up)
    \/ \E a \in Actors :
           \/ DestroyUser(a)
           \/ DestroyInstitution(a, "T1")
    \/ \E email_known \in BOOLEAN : PasswordResetRequest(email_known, TRUE)
    \/ /\ user # NoRow
       /\ Login(TRUE, TRUE, "", FALSE)
    \/ CleanupAuditLogs

SpecAudit == AuditInit /\ [][AuditNext]_vars

----------------------------------------------------------------------------
(* Properties of SpecAudit *)

\* the value of a field in a snapshot, None when the snapshot lacks it; a
\* missing snapshot is the snapshot without fields
FieldOf(snapshot, field) ==
    IF field \in DOMAIN snapshot THEN snapshot[field] ELSE None

\* the field-level diff of two snapshots
Diff(before, after) ==
    [field \in {f \in DOMAIN before \cup DOMAIN after :
                   FieldOf(before, f) # FieldOf(after, f)} |->
        [old |-> FieldOf(before, field), new |-> FieldOf(after, field)]]

\* the snapshot perform_update takes of a user row
Snapshot(u) == [role |-> u.role, status |-> u.status]

\* the audit row the last handler created
LastAuditRow == CHOOSE r \in {audit_logs[i] : i \in DOMAIN audit_logs} :
                    r.id = result.audit_id

C16_AppendOnly ==
    \A i \in DOMAIN history :
        \/ \E j \in DOMAIN audit_logs : audit_logs[j] = history[i]
        \/ /\ \A j \in DOMAIN audit_logs : audit_logs[j].id # history[i].id
           /\ history[i].timestamp < now - RetentionSeconds

SecurityOps ==
    {"activate", "suspend", "perform_update", "bulk_action",
     "institution_activate", "institution_deactivate"}

\* C17: after a security-relevant handler (user activate or suspend, role
\* update, bulk user action, institution activate or deactivate) the change
\* it made to the user row or to the institution is in the database only
\* together with the audit row of that call.
C17_NoUnauditedChange ==
    ( /\ result.op \in SecurityOps
      /\ \/ user # result.before
         \/ institutions # result.institutions_before )
    => /\ result.audited
       /\ \E j \in DOMAIN audit_logs : audit_logs[j].id = result.audit_id

\* C18: every call of AuditLog.log_action made while the database can be
\* reached creates its audit row, whoever the actor is (None included).
C18_AuditRecordSucceeds ==
    ( /\ result.op # "none"
      /\ result.log_called
      /\ result.store_up )
    => result.audited

====
